---- MODULE Spec2Model ----
(***************************************************************************)
(* Model of the automated ILP scheduler (src/src/scheduler.py).            *)
(*                                                                         *)
(* The program reads an edgelist data-flow graph, selects a scheduling     *)
(* objective from the command line, validates the graph, computes the      *)
(* ASAP/ALAP control steps and appends the lines of a CPLEX-LP file to a    *)
(* line buffer.  Node labels are strings in the program; they are modelled *)
(* as the naturals 1..MaxLabel, whose order stands for the lexicographic   *)
(* order of the labels.                                                    *)
(***************************************************************************)
EXTENDS Integers, Sequences, FiniteSets, TLC

VARIABLES graph, args, pc, runs, schedule_obj, err,
          node_unit, unit_cost, unit_times_asap, unit_times_alap,
          latency_cstr, generated_ilp, integer_set, crit_path_nodes, lp_files

vars == <<graph, args, pc, runs, schedule_obj, err,
          node_unit, unit_cost, unit_times_asap, unit_times_alap,
          latency_cstr, generated_ilp, integer_set, crit_path_nodes, lp_files>>

----------------------------------------------------------------------------
(* Bounds of the model.                                                    *)

\* Node labels are 1..MaxLabel.
MaxLabel == 4
\* An edgelist file has at most MaxEdges lines.
MaxEdges == 3
\* The user latency, when supplied, is in 0..MaxLatency.
MaxLatency == 3
\* The user area-cost vector, when supplied, has 1..MaxArea entries.
MaxArea == 2

Labels == 1..MaxLabel

----------------------------------------------------------------------------
(* Generic helpers: Python's sorted(), list indexing, dict.get.            *)

SetMin(S) == CHOOSE x \in S : \A y \in S : x <= y

RECURSIVE sorted(_)
sorted(S) == IF S = {} THEN <<>>
             ELSE LET m == SetMin(S) IN <<m>> \o sorted(S \ {m})

Range(q) == {q[i] : i \in 1..Len(q)}

Last(q) == q[Len(q)]

\* d[k] := v on a dict modelled as a function
Put(d, k, v) == [x \in (DOMAIN d) \cup {k} |-> IF x = k THEN v ELSE d[x]]

EmptyDict == [x \in {} |-> 0]

----------------------------------------------------------------------------
(* The input graph.  nx.read_edgelist(create_using=nx.DiGraph) adds, for   *)
(* each line "u v {attrs}", node u, then node v, then the edge u->v; the    *)
(* node enumeration is the order of first appearance, and graph.edges()    *)
(* enumerates, node by node in that order, the out-edges of the node in    *)
(* the order they were added.                                              *)

Pairs == {p \in Labels \X Labels : p[1] # p[2]}

RECURSIVE PairSeqs(_)
PairSeqs(n) ==
    IF n = 0 THEN {<<>>}
    ELSE LET S == PairSeqs(n - 1)
         IN  S \cup {Append(q, p) : q \in {r \in S : Len(r) = n - 1},
                                     p \in Pairs}

\* edgelist files: 1..MaxEdges lines, no edge listed twice
EdgeFiles == {q \in PairSeqs(MaxEdges) :
                 /\ Len(q) >= 1
                 /\ \A i, j \in 1..Len(q) : i # j => q[i] # q[j]}

RECURSIVE NodeOrder(_, _)
NodeOrder(lines, acc) ==
    IF lines = <<>> THEN acc
    ELSE LET u  == Head(lines)[1]
             v  == Head(lines)[2]
             a1 == IF u \in Range(acc) THEN acc ELSE Append(acc, u)
             a2 == IF v \in Range(a1) THEN a1 ELSE Append(a1, v)
         IN  NodeOrder(Tail(lines), a2)

\* out-edges of node u in the order the file lists them
OutLines(lines, u) == SelectSeq(lines, LAMBDA l : l[1] = u)

RECURSIVE EdgeOrder(_, _)
EdgeOrder(lines, nodes) ==
    IF nodes = <<>> THEN <<>>
    ELSE OutLines(lines, Head(nodes)) \o EdgeOrder(lines, Tail(nodes))

----------------------------------------------------------------------------
(* Edge attributes.  Every line carries root, child (unit ids) and          *)
(* root_cost, child_cost.  The files of the model take them from a unit    *)
(* plan: the source (first node) has unit 0 and cost 0, the sink (last     *)
(* node) has the largest unit id and cost 0, and an interior node has      *)
(* either the one interior unit 1 ("single") or a unit of its own, equal   *)
(* to its label ("perlabel"); an interior unit u costs u + 1.  A file may  *)
(* moreover contradict itself on its last line: "unit" gives the child of  *)
(* that line another unit id, "cost" another cost.                         *)

UnitPlans == {"single", "perlabel"}
Clashes == {"none", "unit", "cost"}

SinkUnit(plan) == IF plan = "single" THEN 2 ELSE MaxLabel + 1

PlanUnit(plan, nodes, n) ==
    IF n = nodes[1] THEN 0
    ELSE IF n = Last(nodes) THEN SinkUnit(plan)
    ELSE IF plan = "single" THEN 1 ELSE n

PlanCost(plan, u) == IF u = 0 \/ u = SinkUnit(plan) THEN 0 ELSE u + 1

FileLine(pairs, plan, clash, i) ==
    LET nodes == NodeOrder(pairs, <<>>)
        ru    == PlanUnit(plan, nodes, pairs[i][1])
        cu    == PlanUnit(plan, nodes, pairs[i][2])
        hit   == i = Len(pairs)
    IN  [u          |-> pairs[i][1],
         v          |-> pairs[i][2],
         root       |-> ru,
         child      |-> IF hit /\ clash = "unit" THEN cu + 1 ELSE cu,
         root_cost  |-> PlanCost(plan, ru),
         child_cost |-> IF hit /\ clash = "cost" THEN PlanCost(plan, cu) + 1
                        ELSE PlanCost(plan, cu)]

\* the graph object nx.read_edgelist builds from a file
read_edgelist(pairs, plan, clash) ==
    LET nodes == NodeOrder(pairs, <<>>)
        order == EdgeOrder(pairs, nodes)
        idx(p) == CHOOSE i \in 1..Len(pairs) : pairs[i] = p
    IN  [nodes |-> nodes,
         edges |-> [k \in 1..Len(order) |->
                       FileLine(pairs, plan, clash, idx(order[k]))]]

Graphs == {read_edgelist(f, plan, clash) :
              f \in EdgeFiles, plan \in UnitPlans, clash \in Clashes}

\* graph.nodes(), graph.adj[n], graph.predecessors(n)
Nodes(g) == Range(g.nodes)
adj(g, n) == {g.edges[k].v : k \in {i \in 1..Len(g.edges) : g.edges[i].u = n}}
predecessors(g, n) ==
    {g.edges[k].u : k \in {i \in 1..Len(g.edges) : g.edges[i].v = n}}

----------------------------------------------------------------------------
(* Command-line arguments (argparse): -l is an int or None, -a is a        *)
(* non-empty list of ints or None.                                         *)

None == [isNone |-> TRUE, val |-> 0]
Some(x) == [isNone |-> FALSE, val |-> x]

\* the count vector of length k used by the model: 2, 3, ...
CountVec(k) == [i \in 1..k |-> i + 1]

LatencyArgs == {None} \cup {Some(l) : l \in 0..MaxLatency}
AreaArgs == {None} \cup {Some(CountVec(k)) : k \in 1..MaxArea}

\* Python truthiness of args.latency (None and 0 are falsy) and of
\* args.area_cost (None is falsy; a supplied list is never empty)
TruthyInt(a) == ~a.isNone /\ a.val # 0
TruthyList(a) == ~a.isNone /\ Len(a.val) # 0

----------------------------------------------------------------------------
(* Cycle check (run_scheduler lines 68-72, is_cyclic).  visited and        *)
(* rec_stack are bound to one dict on line 69, so the model keeps the one  *)
(* map: a write through either name is a write to it, and the test of line *)
(* 178 reads the entry line 176 has just found False.                      *)

\* The search is modelled call by call on a record st that holds the dict
\* (visited) together with three records of the search that are not program
\* state: stack, the nodes whose call has passed line 180 and has not
\* returned; found, the stack at the moment line 177 returned True; calls,
\* the number of calls made; and two flags, search_ok and unwind_ok, that
\* stay TRUE as long as the marked nodes were the nodes of the stack at
\* every point passed, before and after a call returned True.

Marked(visited) == {n \in DOMAIN visited : visited[n]}

\* the marked nodes are the nodes of the stack, each once
OnStack(visited, stack) ==
    /\ Marked(visited) = Range(stack)
    /\ Cardinality(Range(stack)) = Len(stack)

\* line 187 left out: a finished node stays marked
UnmarkSkipped(visited, node) == visited

\* rec_stack[node] = False (line 187), a write to the one dict
Unmark(visited, node) == [visited EXCEPT ![node] = FALSE]

RECURSIVE is_cyclic_call(_, _, _)
RECURSIVE is_cyclic_children(_, _, _)

\* one call of is_cyclic; returns [res, st]
is_cyclic_call(g, node, st) ==
    LET st0 == [st EXCEPT !.calls = @ + 1]
    IN  IF st.visited[node]
        THEN [res |-> TRUE, st |-> [st0 EXCEPT !.found = st.stack]]
        ELSE LET marked == [st.visited EXCEPT ![node] = TRUE]
                 pushed == Append(st.stack, node)
                 st1 == [st0 EXCEPT !.visited = marked,
                                    !.stack = pushed,
                                    !.search_ok = @ /\ OnStack(marked, pushed)]
                 r == is_cyclic_children(g, sorted(adj(g, node)), st1)
             IN  IF r.res
                 THEN [res |-> TRUE,
                       st |-> [r.st EXCEPT
                                 !.stack = st.stack,
                                 !.unwind_ok =
                                     @ /\ (st.stack = <<>>
                                           \/ OnStack(r.st.visited, st.stack))]]
                 ELSE LET left == Unmark(r.st.visited, node)
                      IN  [res |-> FALSE,
                           st |-> [r.st EXCEPT
                                     !.visited = left,
                                     !.stack = st.stack,
                                     !.search_ok =
                                         @ /\ OnStack(left, st.stack)]]

\* the loop of lines 183-185
is_cyclic_children(g, children, st) ==
    IF children = <<>> THEN [res |-> FALSE, st |-> st]
    ELSE LET r == is_cyclic_call(g, Head(children), st)
         IN  IF r.res THEN r
             ELSE is_cyclic_children(g, Tail(children), r.st)

\* the search as a top-level call starts it
SearchStart(visited) ==
    [visited |-> visited, stack |-> <<>>, found |-> <<>>, calls |-> 0,
     search_ok |-> TRUE, unwind_ok |-> TRUE]

\* a top-level call (line 71); returns [res: the bool returned, visited: the
\* dict as the call leaves it]
is_cyclic(g, node, visited) ==
    LET r == is_cyclic_call(g, node, SearchStart(visited))
    IN  [res |-> r.res, visited |-> r.st.visited]

\* the nodes the loop of line 70 starts a search from
CycleCheckRootsFirstOnly(g) == <<g.nodes[1]>>

CycleCheckRoots(g) == g.nodes

RECURSIVE cycle_loop(_, _, _)
cycle_loop(g, roots, visited) ==
    IF roots = <<>> THEN FALSE
    ELSE LET r == is_cyclic(g, Head(roots), visited)
         IN  IF r.res THEN TRUE ELSE cycle_loop(g, Tail(roots), r.visited)

\* TRUE iff run_scheduler raises the cycle exception
cycle_detected(g) ==
    cycle_loop(g, CycleCheckRoots(g), [n \in Nodes(g) |-> FALSE])

----------------------------------------------------------------------------
(* get_node_unit_cost: both tables are filled edge by edge, a later edge   *)
(* overwriting what an earlier one stored; sorting the dicts fixes the     *)
(* order of their items, which the model reads off with sorted(DOMAIN).    *)

RECURSIVE node_unit_fold(_, _)
node_unit_fold(edges, d) ==
    IF edges = <<>> THEN d
    ELSE LET e == Head(edges)
         IN  node_unit_fold(Tail(edges), Put(Put(d, e.u, e.root), e.v, e.child))

RECURSIVE unit_cost_fold(_, _)
unit_cost_fold(edges, d) ==
    IF edges = <<>> THEN d
    ELSE LET e == Head(edges)
         IN  unit_cost_fold(Tail(edges),
                            Put(Put(d, e.root, e.root_cost), e.child, e.child_cost))

get_node_unit_cost(g) ==
    [node_unit |-> node_unit_fold(g.edges, EmptyDict),
     unit_cost |-> unit_cost_fold(g.edges, EmptyDict)]

\* list(unit_cost.items())[1:-1]: the unit ids but the smallest and largest
InteriorUnits(uc) ==
    LET q == sorted(DOMAIN uc)
    IN  IF Len(q) <= 2 THEN <<>> ELSE SubSeq(q, 2, Len(q) - 1)

----------------------------------------------------------------------------
(* ASAP: get_asap and its recursive helper dfs.                            *)

RECURSIVE dfs(_, _, _, _)
RECURSIVE dfs_children(_, _, _, _)

\* unit_times must be raised: line 261
RelaxAsapAlways(level, n_level) == TRUE

RelaxAsap(level, n_level) == level > n_level

\* st = [unit_times, seen], the two objects dfs updates in place
dfs(g, node, st, level) ==
    LET lv      == level + 1
        n_level == IF node \in DOMAIN st.unit_times
                   THEN st.unit_times[node] ELSE -1
        st1     == [unit_times |-> IF RelaxAsap(lv, n_level)
                                   THEN Put(st.unit_times, node, lv)
                                   ELSE st.unit_times,
                    seen       |-> st.seen \cup {node}]
    IN  dfs_children(g, sorted(adj(g, node)), st1, lv)

dfs_children(g, children, st, level) ==
    IF children = <<>> THEN st
    ELSE dfs_children(g, Tail(children), dfs(g, Head(children), st, level), level)

\* the test of line 247, negated
AllSeenFromSourceUnchecked(g, seen) == TRUE

AllSeenFromSource(g, seen) == Len(g.nodes) = Cardinality(seen)

\* returns [err, unit_times]; err is "none" when the map is returned
get_asap(g) ==
    LET s        == g.nodes[1]
        st0      == [unit_times |-> Put(EmptyDict, s, 0), seen |-> {s}]
        children == sorted(adj(g, s))
    IN  IF children = <<>>
        THEN [err |-> "EmptySourceChildren", unit_times |-> st0.unit_times]
        ELSE LET st == dfs_children(g, children, st0, 0)
             IN  IF ~AllSeenFromSource(g, st.seen)
                 THEN [err |-> "SourceUnreachable", unit_times |-> st.unit_times]
                 ELSE [err |-> "none", unit_times |-> st.unit_times]

----------------------------------------------------------------------------
(* ALAP: get_alap and its recursive helper dfs_reverse.                    *)

RECURSIVE dfs_reverse(_, _, _, _)
RECURSIVE dfs_reverse_parents(_, _, _, _)

\* unit_times must be lowered: line 303, n_level being inf for a new node
RelaxAlapAlways(level, known, n_level) == TRUE

RelaxAlap(level, known, n_level) == ~known \/ level < n_level

dfs_reverse(g, node, st, level) ==
    LET lv    == level - 1
        known == node \in DOMAIN st.unit_times
        st1   == [unit_times |-> IF RelaxAlap(lv, known,
                                              IF known THEN st.unit_times[node]
                                              ELSE 0)
                                 THEN Put(st.unit_times, node, lv)
                                 ELSE st.unit_times,
                  seen       |-> st.seen \cup {node}]
    IN  dfs_reverse_parents(g, sorted(predecessors(g, node)), st1, lv)

dfs_reverse_parents(g, parents, st, level) ==
    IF parents = <<>> THEN st
    ELSE dfs_reverse_parents(g, Tail(parents),
                             dfs_reverse(g, Head(parents), st, level), level)

\* the test of line 289, negated
AllSeenFromSinkUnchecked(g, seen) == TRUE

AllSeenFromSink(g, seen) == Len(g.nodes) = Cardinality(seen)

get_alap(g, L) ==
    LET t       == Last(g.nodes)
        level   == L + 1
        st0     == [unit_times |-> Put(EmptyDict, t, level), seen |-> {t}]
        parents == sorted(predecessors(g, t))
    IN  IF parents = <<>>
        THEN [err |-> "EmptySinkParents", unit_times |-> st0.unit_times]
        ELSE LET st == dfs_reverse_parents(g, parents, st0, level)
             IN  IF ~AllSeenFromSink(g, st.seen)
                 THEN [err |-> "SinkUnreachable", unit_times |-> st.unit_times]
                 ELSE [err |-> "none", unit_times |-> st.unit_times]

----------------------------------------------------------------------------
(* The LP emitter.  Lines are the strings the program appends.             *)

\* the label 't' that lines 319, 361 and 388 compare with or look up
LabelT == 2

RECURSIVE Join(_, _)
Join(q, sep) == IF q = <<>> THEN ""
                ELSE IF Len(q) = 1 THEN q[1]
                ELSE q[1] \o sep \o Join(Tail(q), sep)

RECURSIVE Flatten(_)
Flatten(qq) == IF qq = <<>> THEN <<>> ELSE Head(qq) \o Flatten(Tail(qq))

\* list(range(a, b + 1))
range(a, b) == [i \in 1..(b - a + 1) |-> a + i - 1]

\* q.index(x), 0-based
index(q, x) == (CHOOSE i \in 1..Len(q) : q[i] = x) - 1

get_nodes(g) ==
    LET s == g.nodes[1]
        t == Last(g.nodes)
    IN  <<s>> \o sorted(Nodes(g) \ {s, t}) \o <<t>>

\* f"{var_letter}_{id}_{time}"
XVar(id, time) == "x_" \o id \o "_" \o ToString(time)

\* f"{time}{var_letter}_{id}_{time}"
TXVar(id, time) == ToString(time) \o XVar(id, time)

\* line 205 comparing with the label 't', as lines 319 and 388 do
MinFuncIdLiteral(g, nodes, k) ==
    IF nodes[k] = LabelT THEN "n" ELSE ToString(k - 1)

\* the id generate_min_func gives the k-th node (line 205)
MinFuncId(g, nodes, k) ==
    IF nodes[k] = Last(g.nodes) THEN "n" ELSE ToString(k - 1)

\* the id generate_exec_cstrs and generate_dep_cstrs give it (lines 319, 388)
LiteralId(nodes, k) == IF nodes[k] = LabelT THEN "n" ELSE ToString(k - 1)

\* returns [line, integer_set, crit_path_nodes]
generate_min_func(obj, g, asap, alap, uc) ==
    IF obj = "ML-RC"
    THEN LET nodes == get_nodes(g)
             s == g.nodes[1]
             t == Last(g.nodes)
             win(k) == range(asap[nodes[k]], alap[nodes[k]])
             crit(k) == asap[nodes[k]] = alap[nodes[k]]
             terms == Flatten([k \in 1..Len(nodes) |->
                         IF crit(k) THEN <<>>
                         ELSE [i \in 1..Len(win(k)) |->
                                  TXVar(MinFuncId(g, nodes, k), win(k)[i])]])
             ints  == Flatten([k \in 1..Len(nodes) |->
                         IF crit(k) THEN <<>>
                         ELSE [i \in 1..Len(win(k)) |->
                                  XVar(MinFuncId(g, nodes, k), win(k)[i])]])
         IN  [line |-> "  " \o Join(terms, " + "),
              integer_set |-> ints,
              crit_path_nodes |->
                  SelectSeq(nodes, LAMBDA n : /\ asap[n] = alap[n]
                                              /\ n # s /\ n # t)]
    ELSE LET units == InteriorUnits(uc)
         IN  [line |-> "  " \o Join([i \in 1..Len(units) |->
                           ToString(uc[units[i]]) \o "a" \o ToString(units[i])],
                           " + "),
              integer_set |-> <<>>,
              crit_path_nodes |-> <<>>]

\* the lines generate_exec_cstrs appends
generate_exec_cstrs(g, asap, alap) ==
    LET nodes == get_nodes(g)
        win(k) == range(asap[nodes[k]], alap[nodes[k]])
    IN  [k \in 1..Len(nodes) |->
            "  e" \o ToString(k - 1) \o ": "
            \o Join([i \in 1..Len(win(k)) |->
                        XVar(LiteralId(nodes, k), win(k)[i])], " + ")
            \o " = 1"]

\* unit_count[i] on a Python list: negative indices count from the end
IndexOk(q, i) == -Len(q) <= i /\ i < Len(q)
PyIndex(q, i) == IF i >= 0 THEN q[i + 1] ELSE q[Len(q) + i + 1]

\* the lines of one unit (lines 361-376): one per step with a candidate
rsrc_unit_lines(obj, g, nu, asap, alap, unit, subtrahend, cstr_id) ==
    LET nodes      == get_nodes(g)
        nodes_unit == SelectSeq(sorted(DOMAIN nu), LAMBDA n : nu[n] = unit)
        times      == range(1, alap[LabelT] - 1)
        cand(time) == SelectSeq(nodes_unit,
                          LAMBDA n : time >= asap[n] /\ time <= alap[n])
        sums       == [i \in 1..Len(times) |->
                          [j \in 1..Len(cand(times[i])) |->
                              XVar(ToString(index(nodes, cand(times[i])[j])),
                                   times[i])]]
        kept       == SelectSeq(sums, LAMBDA q : q # <<>>)
    IN  [k \in 1..Len(kept) |->
            "  r" \o ToString(cstr_id + k - 1) \o ": " \o Join(kept[k], " + ")
            \o (IF obj = "MR-LC" THEN " - " \o subtrahend \o " <= 0"
                ELSE " <= " \o subtrahend)]

RECURSIVE rsrc_units(_, _, _, _, _, _, _, _)
\* acc: the resource lines appended so far; cstr_id is their number
rsrc_units(units, obj, g, nu, unit_count, asap, alap, acc) ==
    IF units = <<>> THEN [err |-> "none", lines |-> acc]
    ELSE LET unit == Head(units)
         IN  IF obj = "ML-RC" /\ ~IndexOk(unit_count, unit - 1)
             THEN [err |-> "IndexError", lines |-> acc]
             ELSE IF LabelT \notin DOMAIN alap
             THEN [err |-> "KeyError", lines |-> acc]
             ELSE LET subtrahend ==
                          IF obj = "ML-RC"
                          THEN ToString(PyIndex(unit_count, unit - 1))
                          ELSE "a" \o ToString(unit)
                  IN  rsrc_units(Tail(units), obj, g, nu, unit_count, asap, alap,
                                 acc \o rsrc_unit_lines(obj, g, nu, asap, alap,
                                                        unit, subtrahend,
                                                        Len(acc)))

\* returns [err, lines]: the lines appended before the exception, if any
generate_rsrc_cstrs(obj, g, uc, nu, unit_count, asap, alap) ==
    rsrc_units(InteriorUnits(uc), obj, g, nu, unit_count, asap, alap, <<>>)

\* " - ".join(terms) with its first plus_count '-' replaced by '+'
\* (str.replace with a negative count replaces them all)
JoinDep(terms, plus_count) ==
    LET sep(i) == IF plus_count < 0 \/ i <= plus_count THEN " + " ELSE " - "
    IN  Join([i \in 1..Len(terms) |->
                 IF i = 1 THEN terms[i] ELSE sep(i - 1) \o terms[i]], "")

\* the test of line 406 dropped: a constraint for every edge
SlackTestAlways(slack, parent_slack) == TRUE

\* "if slack or parent_slack" (line 406)
SlackTest(slack, parent_slack) == slack # 0 \/ parent_slack # 0

\* the (child index, parent) pairs a constraint is emitted for, in order
dep_edges(g, asap, alap) ==
    LET nodes == get_nodes(g)
        slack(n) == alap[n] - asap[n]
        parents(k) == sorted(predecessors(g, nodes[k]))
    IN  Flatten([k \in 1..Len(nodes) |->
           IF parents(k) = <<>> \/ parents(k)[1] = nodes[1] THEN <<>>
           ELSE LET kept == SelectSeq(parents(k),
                               LAMBDA u : SlackTest(slack(nodes[k]), slack(u)))
                IN  [i \in 1..Len(kept) |-> <<k, kept[i]>>]])

\* the lines generate_dep_cstrs appends
generate_dep_cstrs(g, asap, alap) ==
    LET nodes == get_nodes(g)
        edges == dep_edges(g, asap, alap)
        win(n) == range(asap[n], alap[n])
        line(d) ==
            LET k  == edges[d][1]
                u  == edges[d][2]
                cw == win(nodes[k])
                pw == win(u)
                child_terms  == [i \in 1..Len(cw) |->
                                    TXVar(LiteralId(nodes, k), cw[i])]
                parent_terms == [i \in 1..Len(pw) |->
                                    TXVar(ToString(index(nodes, u)), pw[i])]
            IN  "  d" \o ToString(d - 1) \o ": "
                \o JoinDep(child_terms \o parent_terms, Len(child_terms) - 1)
                \o " >= 1"
    IN  [d \in 1..Len(edges) |-> line(d)]

\* the lines generate_closing appends
generate_closing(obj, ints, uc) ==
    IF obj = "ML-RC"
    THEN <<"Integer", "  " \o Join(ints, " "), "End">>
    ELSE LET units == InteriorUnits(uc)
         IN  <<"Integer",
               "  " \o Join([i \in 1..Len(units) |-> "a" \o ToString(units[i])],
                            " "),
               "End">>

----------------------------------------------------------------------------
Init ==
    /\ graph \in Graphs
    /\ args \in [latency : LatencyArgs, area_cost : AreaArgs]
    /\ pc = "main"
    /\ runs = <<>>
    /\ schedule_obj = "unset"
    /\ err = "none"
    /\ node_unit = EmptyDict
    /\ unit_cost = EmptyDict
    /\ unit_times_asap = EmptyDict
    /\ unit_times_alap = EmptyDict
    /\ latency_cstr = 0
    /\ generated_ilp = <<>>
    /\ integer_set = <<>>
    /\ crit_path_nodes = <<>>
    /\ lp_files = EmptyDict

\* the objective of the run_scheduler call in progress
Obj == Head(runs)

\* an exception leaves run_scheduler and main: the program ends
Raise(e) == pc' = "failed" /\ err' = e

\* main, lines 41-58: the objective is chosen by the truthiness of the
\* arguments; when no branch of the if/elif chain is taken, schedule_obj is
\* unbound on line 53
main ==
    /\ pc = "main"
    /\ IF args.latency.isNone /\ args.area_cost.isNone
       THEN /\ pc' = "exit"
            /\ err' = "NoConstraint"
            /\ UNCHANGED <<schedule_obj, runs>>
       ELSE IF ~TruthyInt(args.latency) /\ TruthyList(args.area_cost)
       THEN /\ schedule_obj' = "ML-RC"
            /\ runs' = <<"ML-RC">>
            /\ pc' = "is_cyclic"
            /\ UNCHANGED err
       ELSE IF TruthyInt(args.latency) /\ ~TruthyList(args.area_cost)
       THEN /\ schedule_obj' = "MR-LC"
            /\ runs' = <<"MR-LC">>
            /\ pc' = "is_cyclic"
            /\ UNCHANGED err
       ELSE IF TruthyInt(args.latency) /\ TruthyList(args.area_cost)
       THEN /\ schedule_obj' = "both"
            /\ runs' = <<"ML-RC", "MR-LC">>
            /\ pc' = "is_cyclic"
            /\ UNCHANGED err
       ELSE /\ Raise("UnboundLocalError")
            /\ UNCHANGED <<schedule_obj, runs>>
    /\ UNCHANGED <<graph, args, node_unit, unit_cost, unit_times_asap,
                   unit_times_alap, latency_cstr, generated_ilp, integer_set,
                   crit_path_nodes, lp_files>>

\* run_scheduler, lines 68-72
check_cycle ==
    /\ pc = "is_cyclic"
    /\ IF cycle_detected(graph)
       THEN Raise("CycleDetected")
       ELSE pc' = "get_node_unit_cost" /\ UNCHANGED err
    /\ UNCHANGED <<graph, args, runs, schedule_obj, node_unit, unit_cost,
                   unit_times_asap, unit_times_alap, latency_cstr,
                   generated_ilp, integer_set, crit_path_nodes, lp_files>>

\* run_scheduler, line 75
node_unit_cost ==
    /\ pc = "get_node_unit_cost"
    /\ node_unit' = get_node_unit_cost(graph).node_unit
    /\ unit_cost' = get_node_unit_cost(graph).unit_cost
    /\ pc' = "area_check"
    /\ UNCHANGED <<graph, args, runs, schedule_obj, err, unit_times_asap,
                   unit_times_alap, latency_cstr, generated_ilp, integer_set,
                   crit_path_nodes, lp_files>>

\* run_scheduler, lines 79-81
area_check ==
    /\ pc = "area_check"
    /\ IF /\ TruthyList(args.area_cost)
          /\ Cardinality(DOMAIN unit_cost) - 2 # Len(args.area_cost.val)
       THEN Raise("ResourceCountMismatch")
       ELSE pc' = "get_asap" /\ UNCHANGED err
    /\ UNCHANGED <<graph, args, runs, schedule_obj, node_unit, unit_cost,
                   unit_times_asap, unit_times_alap, latency_cstr,
                   generated_ilp, integer_set, crit_path_nodes, lp_files>>

\* run_scheduler, line 84
asap ==
    /\ pc = "get_asap"
    /\ LET r == get_asap(graph)
       IN  IF r.err # "none"
           THEN Raise(r.err) /\ UNCHANGED unit_times_asap
           ELSE /\ unit_times_asap' = r.unit_times
                /\ pc' = "latency"
                /\ UNCHANGED err
    /\ UNCHANGED <<graph, args, runs, schedule_obj, node_unit, unit_cost,
                   unit_times_alap, latency_cstr, generated_ilp, integer_set,
                   crit_path_nodes, lp_files>>

\* the test of line 89, negated
LatencyFeasibleUnchecked(cstr, asap_latency_cstr) == TRUE

LatencyFeasible(cstr, asap_latency_cstr) == ~(cstr < asap_latency_cstr)

\* run_scheduler, lines 86-90
latency ==
    /\ pc = "latency"
    /\ LET t == Last(graph.nodes)
       IN  IF t \notin DOMAIN unit_times_asap
           THEN Raise("KeyError") /\ UNCHANGED latency_cstr
           ELSE LET asap_latency_cstr == unit_times_asap[t] - 1
                    cstr == IF TruthyInt(args.latency) THEN args.latency.val
                            ELSE asap_latency_cstr
                IN  /\ latency_cstr' = cstr
                    /\ IF ~LatencyFeasible(cstr, asap_latency_cstr)
                       THEN Raise("LatencyInfeasible")
                       ELSE pc' = "get_alap" /\ UNCHANGED err
    /\ UNCHANGED <<graph, args, runs, schedule_obj, node_unit, unit_cost,
                   unit_times_asap, unit_times_alap, generated_ilp,
                   integer_set, crit_path_nodes, lp_files>>

\* run_scheduler, line 91
alap ==
    /\ pc = "get_alap"
    /\ LET r == get_alap(graph, latency_cstr)
       IN  IF r.err # "none"
           THEN Raise(r.err) /\ UNCHANGED unit_times_alap
           ELSE /\ unit_times_alap' = r.unit_times
                /\ pc' = "Minimize"
                /\ UNCHANGED err
    /\ UNCHANGED <<graph, args, runs, schedule_obj, node_unit, unit_cost,
                   unit_times_asap, latency_cstr, generated_ilp, integer_set,
                   crit_path_nodes, lp_files>>

\* every node has an entry in both maps: no lookup of the emitter on a node
\* raises KeyError
MapsCover ==
    Nodes(graph) \subseteq (DOMAIN unit_times_asap) \cap (DOMAIN unit_times_alap)

\* run_scheduler, lines 96-99
append_minimize ==
    /\ pc = "Minimize"
    /\ generated_ilp' = <<"Minimize">>
    /\ integer_set' = <<>>
    /\ crit_path_nodes' = <<>>
    /\ pc' = "generate_min_func"
    /\ UNCHANGED <<graph, args, runs, schedule_obj, err, node_unit, unit_cost,
                   unit_times_asap, unit_times_alap, latency_cstr, lp_files>>

\* run_scheduler, line 100
min_func ==
    /\ pc = "generate_min_func"
    /\ IF Obj = "ML-RC" /\ ~MapsCover
       THEN /\ Raise("KeyError")
            /\ UNCHANGED <<generated_ilp, integer_set, crit_path_nodes>>
       ELSE LET r == generate_min_func(Obj, graph, unit_times_asap,
                                       unit_times_alap, unit_cost)
            IN  /\ generated_ilp' = Append(generated_ilp, r.line)
                /\ integer_set' = r.integer_set
                /\ crit_path_nodes' = r.crit_path_nodes
                /\ pc' = "Subject To"
                /\ UNCHANGED err
    /\ UNCHANGED <<graph, args, runs, schedule_obj, node_unit, unit_cost,
                   unit_times_asap, unit_times_alap, latency_cstr, lp_files>>

\* line 101 left out: the constraints follow the objective directly
SubjectToOmitted ==
    /\ pc = "Subject To"
    /\ pc' = "generate_exec_cstrs"
    /\ UNCHANGED <<graph, args, runs, schedule_obj, err, node_unit, unit_cost,
                   unit_times_asap, unit_times_alap, latency_cstr,
                   generated_ilp, integer_set, crit_path_nodes, lp_files>>

\* run_scheduler, line 101
append_subject_to ==
    /\ pc = "Subject To"
    /\ generated_ilp' = Append(generated_ilp, "Subject To")
    /\ pc' = "generate_exec_cstrs"
    /\ UNCHANGED <<graph, args, runs, schedule_obj, err, node_unit, unit_cost,
                   unit_times_asap, unit_times_alap, latency_cstr, integer_set,
                   crit_path_nodes, lp_files>>

\* run_scheduler, line 102
exec_cstrs ==
    /\ pc = "generate_exec_cstrs"
    /\ IF ~MapsCover
       THEN Raise("KeyError") /\ UNCHANGED generated_ilp
       ELSE /\ generated_ilp' =
                  generated_ilp \o generate_exec_cstrs(graph, unit_times_asap,
                                                       unit_times_alap)
            /\ pc' = "generate_rsrc_cstrs"
            /\ UNCHANGED err
    /\ UNCHANGED <<graph, args, runs, schedule_obj, node_unit, unit_cost,
                   unit_times_asap, unit_times_alap, latency_cstr, integer_set,
                   crit_path_nodes, lp_files>>

\* run_scheduler, line 103
rsrc_cstrs ==
    /\ pc = "generate_rsrc_cstrs"
    /\ LET r == generate_rsrc_cstrs(Obj, graph, unit_cost, node_unit,
                                    args.area_cost.val, unit_times_asap,
                                    unit_times_alap)
       IN  /\ generated_ilp' = generated_ilp \o r.lines
           /\ IF r.err # "none"
              THEN Raise(r.err)
              ELSE pc' = "generate_dep_cstrs" /\ UNCHANGED err
    /\ UNCHANGED <<graph, args, runs, schedule_obj, node_unit, unit_cost,
                   unit_times_asap, unit_times_alap, latency_cstr, integer_set,
                   crit_path_nodes, lp_files>>

\* run_scheduler, line 104
dep_cstrs ==
    /\ pc = "generate_dep_cstrs"
    /\ generated_ilp' =
           generated_ilp \o generate_dep_cstrs(graph, unit_times_asap,
                                               unit_times_alap)
    /\ pc' = "generate_closing"
    /\ UNCHANGED <<graph, args, runs, schedule_obj, err, node_unit, unit_cost,
                   unit_times_asap, unit_times_alap, latency_cstr, integer_set,
                   crit_path_nodes, lp_files>>

\* run_scheduler, line 105
closing ==
    /\ pc = "generate_closing"
    /\ generated_ilp' =
           generated_ilp \o generate_closing(Obj, integer_set, unit_cost)
    /\ pc' = "write_list"
    /\ UNCHANGED <<graph, args, runs, schedule_obj, err, node_unit, unit_cost,
                   unit_times_asap, unit_times_alap, latency_cstr, integer_set,
                   crit_path_nodes, lp_files>>

\* run_scheduler, line 106: the buffer is written to auto_<objective>.lp
write_list ==
    /\ pc = "write_list"
    /\ lp_files' = Put(lp_files, "auto_" \o Obj \o ".lp", generated_ilp)
    /\ pc' = "glpsol"
    /\ UNCHANGED <<graph, args, runs, schedule_obj, err, node_unit, unit_cost,
                   unit_times_asap, unit_times_alap, latency_cstr,
                   generated_ilp, integer_set, crit_path_nodes>>

\* run_scheduler, lines 108-143: the solver is run on the file and its result
\* is reported; the solver is an external program, taken here to produce its
\* result file.  run_scheduler returns: main starts its second call (line 58)
\* with fresh locals, or ends.
report ==
    /\ pc = "glpsol"
    /\ runs' = Tail(runs)
    /\ pc' = IF Len(runs) > 1 THEN "is_cyclic" ELSE "done"
    /\ node_unit' = EmptyDict
    /\ unit_cost' = EmptyDict
    /\ unit_times_asap' = EmptyDict
    /\ unit_times_alap' = EmptyDict
    /\ latency_cstr' = 0
    /\ generated_ilp' = <<>>
    /\ integer_set' = <<>>
    /\ crit_path_nodes' = <<>>
    /\ UNCHANGED <<graph, args, schedule_obj, err, lp_files>>

Next ==
    \/ main
    \/ check_cycle
    \/ node_unit_cost
    \/ area_check
    \/ asap
    \/ latency
    \/ alap
    \/ append_minimize
    \/ min_func
    \/ append_subject_to
    \/ exec_cstrs
    \/ rsrc_cstrs
    \/ dep_cstrs
    \/ closing
    \/ write_list
    \/ report

Spec == Init /\ [][Next]_vars

----------------------------------------------------------------------------
(* Reference notions the properties are stated with.  They are defined on  *)
(* the graph alone, by reachability, and do not use the program's          *)
(* searches.                                                               *)

Source == graph.nodes[1]
Sink == Last(graph.nodes)

SetMax(S) == CHOOSE x \in S : \A y \in S : x >= y

RECURSIVE ReachFrom(_, _)
\* the nodes reachable from a node of S by zero or more edges
ReachFrom(g, S) ==
    LET T == S \cup UNION {adj(g, n) : n \in S}
    IN  IF T = S THEN S ELSE ReachFrom(g, T)

HasCycle(g) == \E n \in Nodes(g) : n \in ReachFrom(g, adj(g, n))

AllFromSource(g) == ReachFrom(g, {g.nodes[1]}) = Nodes(g)

AllToSink(g) == \A n \in Nodes(g) : Last(g.nodes) \in ReachFrom(g, {n})

\* the mobility maps are those of a completed analysis of the current run
AsapReturned == unit_times_asap # EmptyDict
AlapReturned == unit_times_alap # EmptyDict

\* L_min = ASAP(t) - 1
Lmin == unit_times_asap[Sink] - 1

\* the recurrences of the two maps
AsapRecurrence(g, ut) ==
    /\ DOMAIN ut = Nodes(g)
    /\ ut[g.nodes[1]] = 0
    /\ \A n \in Nodes(g) \ {g.nodes[1]} :
          /\ predecessors(g, n) # {}
          /\ ut[n] = SetMax({ut[p] + 1 : p \in predecessors(g, n)})

AlapRecurrence(g, ut, L) ==
    /\ DOMAIN ut = Nodes(g)
    /\ ut[Last(g.nodes)] = L + 1
    /\ \A n \in Nodes(g) \ {Last(g.nodes)} :
          /\ adj(g, n) # {}
          /\ ut[n] = SetMin({ut[c] - 1 : c \in adj(g, n)})

----------------------------------------------------------------------------
(* Properties.                                                             *)

\* C1: for every accepted graph and effective latency L >= L_min, the maps
\* returned by get_asap and get_alap satisfy ASAP(n) <= ALAP(n) for every
\* node n, ASAP(s) = 0 and ALAP(t) = L + 1.
C1_MobilityMonotone ==
    AlapReturned =>
        /\ latency_cstr >= Lmin
        /\ \A n \in Nodes(graph) : unit_times_asap[n] <= unit_times_alap[n]
        /\ unit_times_asap[Source] = 0
        /\ unit_times_alap[Sink] = latency_cstr + 1

\* C1 witness: both maps were returned, at a latency above L_min, and some
\* interior node has a window of more than one step
C1_Witness ==
    /\ AlapReturned
    /\ latency_cstr > Lmin
    /\ \E n \in Nodes(graph) \ {Source, Sink} :
          unit_times_asap[n] < unit_times_alap[n]

\* C2: on every DAG whose nodes are all reachable from the source, get_asap
\* returns 0 for the source and, for every other node, the maximum over its
\* predecessors of step(pred) + 1.  Stated of the map run_scheduler holds
\* and, at the start, of get_asap applied to the input graph.
C2_AsapLongestPath ==
    /\ AsapReturned => AsapRecurrence(graph, unit_times_asap)
    /\ (pc = "main" /\ ~HasCycle(graph) /\ AllFromSource(graph)) =>
          /\ get_asap(graph).err = "none"
          /\ AsapRecurrence(graph, get_asap(graph).unit_times)

\* C2 witness: get_asap returned a map in which some node has two
\* predecessors of different steps, so that the maximum decides
C2_Witness ==
    /\ AsapReturned
    /\ \E n \in Nodes(graph) : \E p, q \in predecessors(graph, n) :
          unit_times_asap[p] < unit_times_asap[q]

\* C3: on every DAG whose nodes all reach the sink, and for every latency L,
\* get_alap returns L + 1 for the sink and, for every other node, the
\* minimum over its successors of step(succ) - 1.  Stated of the map
\* run_scheduler holds and, at the start, of get_alap applied to the input
\* graph with every latency of the model.
C3_AlapLatestStart ==
    /\ AlapReturned => AlapRecurrence(graph, unit_times_alap, latency_cstr)
    /\ (pc = "main" /\ ~HasCycle(graph) /\ AllToSink(graph)) =>
          \A L \in 0..MaxLatency :
             /\ get_alap(graph, L).err = "none"
             /\ AlapRecurrence(graph, get_alap(graph, L).unit_times, L)

\* C3 witness: get_alap returned a map in which some node has two
\* successors of different steps, so that the minimum decides
C3_Witness ==
    /\ AlapReturned
    /\ \E n \in Nodes(graph) : \E c, d \in adj(graph, n) :
          unit_times_alap[c] < unit_times_alap[d]

RECURSIVE LongestFromSource(_, _)
\* the number of edges of a longest path from the source to n, in a DAG
\* whose nodes are all reachable from the source
LongestFromSource(g, n) ==
    IF n = g.nodes[1] THEN 0
    ELSE SetMax({LongestFromSource(g, p) + 1 : p \in predecessors(g, n)})

\* C4 (as stated): after mobility analysis with effective latency L, the
\* source has ASAP = ALAP = 0 and the sink has ASAP = ALAP = L + 1, also
\* when the user latency is above L_min.
C4_EndsPinned ==
    AlapReturned =>
        /\ unit_times_asap[Source] = 0
        /\ unit_times_alap[Source] = 0
        /\ unit_times_asap[Sink] = latency_cstr + 1
        /\ unit_times_alap[Sink] = latency_cstr + 1

\* C4 (amended): after mobility analysis with effective latency L, the
\* source has ASAP = 0 and ALAP = L - L_min, and the sink has
\* ASAP = L_min + 1 and ALAP = L + 1, L_min + 1 being the length of a
\* longest path from source to sink; both have ASAP = ALAP exactly when
\* L = L_min.
C4_EndsWindow ==
    AlapReturned =>
        LET lmin == LongestFromSource(graph, Sink) - 1
        IN  /\ unit_times_asap[Source] = 0
            /\ unit_times_alap[Source] = latency_cstr - lmin
            /\ unit_times_asap[Sink] = lmin + 1
            /\ unit_times_alap[Sink] = latency_cstr + 1
            /\ (/\ unit_times_asap[Source] = unit_times_alap[Source]
                /\ unit_times_asap[Sink] = unit_times_alap[Sink])
               <=> latency_cstr = lmin

\* C4 witness: mobility analysis completed with a user latency above L_min
C4_Witness ==
    /\ AlapReturned
    /\ ~args.latency.isNone
    /\ latency_cstr = args.latency.val
    /\ latency_cstr > Lmin

\* nothing of the mobility analysis or of the emission exists yet
NothingComputed ==
    /\ unit_times_asap = EmptyDict
    /\ unit_times_alap = EmptyDict
    /\ generated_ilp = <<>>
    /\ lp_files = EmptyDict

\* C5: run_scheduler fails with the cycle error if and only if the graph
\* has a directed cycle, and then ASAP/ALAP were not computed and no line
\* was appended to the line buffer.
C5_CycleRejected ==
    /\ err = "CycleDetected" => HasCycle(graph) /\ pc = "failed"
    /\ HasCycle(graph) =>
          /\ NothingComputed
          /\ \/ pc \in {"main", "exit", "is_cyclic"}
             \/ pc = "failed" /\ err \in {"CycleDetected", "UnboundLocalError"}

\* C5 witness: the run failed with the cycle error on a graph whose source
\* is on no cycle
C5_Witness ==
    /\ pc = "failed"
    /\ err = "CycleDetected"
    /\ Source \notin ReachFrom(graph, adj(graph, Source))

\* C6 (as stated): for every user latency below L_min on an accepted graph
\* the run is refused with the latency-infeasible error and no LP line is
\* emitted; without a user latency the effective latency is L_min.
C6_LatencyRefused ==
    /\ (AsapReturned /\ ~args.latency.isNone /\ args.latency.val < Lmin) =>
          /\ pc = "latency" \/ (pc = "failed" /\ err = "LatencyInfeasible")
          /\ generated_ilp = <<>>
          /\ lp_files = EmptyDict
    /\ (AlapReturned /\ args.latency.isNone) => latency_cstr = Lmin

\* C7 (as stated): main selects the objective from the presence of the
\* latency and area-cost inputs alone: neither, NoConstraint and nothing
\* emitted; area only, ML-RC; latency only, MR-LC; both, both.
C7_ObjectiveByPresence ==
    pc # "main" =>
        IF args.latency.isNone /\ args.area_cost.isNone
        THEN pc = "exit" /\ err = "NoConstraint" /\ NothingComputed
        ELSE IF args.latency.isNone THEN schedule_obj = "ML-RC"
        ELSE IF args.area_cost.isNone THEN schedule_obj = "MR-LC"
        ELSE schedule_obj = "both"

\* two edges give a node different unit ids, or a unit id different costs
Inconsistent(g) ==
    LET E == Range(g.edges)
        nu == {<<e.u, e.root>> : e \in E} \cup {<<e.v, e.child>> : e \in E}
        uc == {<<e.root, e.root_cost>> : e \in E}
              \cup {<<e.child, e.child_cost>> : e \in E}
    IN  \/ \E a, b \in nu : a[1] = b[1] /\ a[2] # b[2]
        \/ \E a, b \in uc : a[1] = b[1] /\ a[2] # b[2]

\* C8 (as stated): on a graph whose edges contradict each other about a
\* node's unit or a unit's cost, get_node_unit_cost fails instead of
\* returning tables, and no LP line is emitted.
C8_InconsistentRejected ==
    Inconsistent(graph) =>
        /\ node_unit = EmptyDict
        /\ unit_cost = EmptyDict
        /\ generated_ilp = <<>>
        /\ lp_files = EmptyDict

\* the run is in, or past, the emission of some call of run_scheduler
ReachedEmission ==
    \/ pc \in {"Minimize", "generate_min_func", "Subject To",
               "generate_exec_cstrs", "generate_rsrc_cstrs",
               "generate_dep_cstrs", "generate_closing", "write_list",
               "glpsol", "done"}
    \/ generated_ilp # <<>>
    \/ lp_files # EmptyDict

\* run_scheduler raised (the one failure of main itself is the unbound
\* schedule_obj)
RunFailed == pc = "failed" /\ err # "UnboundLocalError"

\* C9 (as stated): run_scheduler reaches emission only if every node is
\* reachable from the source and reaches the sink; otherwise it fails with
\* the source-unreachable / sink-unreachable (or empty-source-children /
\* empty-sink-parents) error before any line is appended.
C9_UnreachableError ==
    /\ ReachedEmission => AllFromSource(graph) /\ AllToSink(graph)
    /\ (RunFailed /\ ~(AllFromSource(graph) /\ AllToSink(graph))) =>
          /\ err \in {"SourceUnreachable", "SinkUnreachable",
                      "EmptySourceChildren", "EmptySinkParents"}
          /\ generated_ilp = <<>>
          /\ lp_files = EmptyDict

\* C9 (amended): run_scheduler reaches emission only if every node is
\* reachable from the source and reaches the sink; otherwise it fails
\* before any line is appended, with the source-unreachable or
\* empty-source-children error (some node unreachable from the source), or
\* the sink-unreachable or empty-sink-parents error (some node not reaching
\* the sink), unless a check that comes earlier fails first: the cycle
\* check and the area-count check in both cases, the latency check as well
\* in the second.
C9_UnreachableFails ==
    /\ ReachedEmission => AllFromSource(graph) /\ AllToSink(graph)
    /\ (RunFailed /\ ~AllFromSource(graph)) =>
          /\ err \in {"CycleDetected", "ResourceCountMismatch",
                      "SourceUnreachable", "EmptySourceChildren"}
          /\ generated_ilp = <<>>
          /\ lp_files = EmptyDict
    /\ (RunFailed /\ AllFromSource(graph) /\ ~AllToSink(graph)) =>
          /\ err \in {"CycleDetected", "ResourceCountMismatch",
                      "LatencyInfeasible",
                      "SinkUnreachable", "EmptySinkParents"}
          /\ generated_ilp = <<>>
          /\ lp_files = EmptyDict

\* C9 witness: get_alap refused a graph, reachable from the source
\* throughout, in which some node does not reach the sink
C9_Witness ==
    /\ pc = "failed"
    /\ err = "SinkUnreachable"
    /\ AllFromSource(graph)
    /\ ~AllToSink(graph)

\* C10: in every graph that passes the cycle check, get_asap and get_alap,
\* the source has no predecessors and the sink has no successors.
C10_SourceSinkDegree ==
    AlapReturned =>
        /\ predecessors(graph, Source) = {}
        /\ adj(graph, Sink) = {}

\* C10 witness: a graph of four nodes passed all three validation steps
C10_Witness ==
    /\ AlapReturned
    /\ Len(graph.nodes) = 4

----------------------------------------------------------------------------
(* Properties of the emitted lines.  The expected lines are built from the *)
(* graph and the mobility windows with the node index of the data model:   *)
(* the position in the canonical order, and the literal n for the sink,    *)
(* the last node of the input enumeration.                                 *)

NodeId(n) == IF n = Sink THEN "n" ELSE ToString(index(get_nodes(graph), n))

Window(n) == range(unit_times_asap[n], unit_times_alap[n])

Slack(n) == unit_times_alap[n] - unit_times_asap[n]

\* generate_exec_cstrs has returned in the current call of run_scheduler
ExecEmitted ==
    \/ pc \in {"generate_rsrc_cstrs", "generate_dep_cstrs",
               "generate_closing", "write_list", "glpsol"}
    \/ pc = "failed" /\ Len(generated_ilp) >= 3

\* the execution constraint e<k-1> of node n, as the data model writes it
ExecLine(k, n) ==
    "  e" \o ToString(k - 1) \o ": "
    \o Join([i \in 1..Len(Window(n)) |-> XVar(NodeId(n), Window(n)[i])], " + ")
    \o " = 1"

\* C11: generate_exec_cstrs emits exactly |V| execution constraints, one per
\* node in canonical order, labelled e0..e(|V|-1); the constraint of node n
\* has exactly the terms x_<id(n)>_t for t in [ASAP(n), ALAP(n)].
C11_ExecConstraints ==
    ExecEmitted =>
        LET nodes == get_nodes(graph)
        IN  /\ Len(generated_ilp) >= 3 + Len(nodes)
            /\ pc = "generate_rsrc_cstrs" =>
                  Len(generated_ilp) = 3 + Len(nodes)
            /\ \A k \in 1..Len(nodes) :
                  generated_ilp[3 + k] = ExecLine(k, nodes[k])

\* generate_rsrc_cstrs has returned in the current call of run_scheduler
RsrcEmitted ==
    pc \in {"generate_dep_cstrs", "generate_closing", "write_list", "glpsol"}

\* the nodes of unit u whose window contains step t, in label order
Candidates(u, t) ==
    SelectSeq(sorted(DOMAIN node_unit),
              LAMBDA n : /\ node_unit[n] = u
                         /\ unit_times_asap[n] <= t
                         /\ t <= unit_times_alap[n])

\* the (unit, step) pairs with a candidate: interior units ascending, then
\* the steps 1..L ascending
RsrcPairs ==
    LET units == InteriorUnits(unit_cost)
    IN  Flatten([i \in 1..Len(units) |->
           LET steps == SelectSeq(range(1, latency_cstr),
                           LAMBDA t : Candidates(units[i], t) # <<>>)
           IN  [j \in 1..Len(steps) |-> <<units[i], steps[j]>>]])

\* the resource constraint r<k-1> of the pair (u, t); its bound is the
\* entry of the count vector the program reads for u
RsrcLine(k, u, t) ==
    LET c == Candidates(u, t)
    IN  "  r" \o ToString(k - 1) \o ": "
        \o Join([j \in 1..Len(c) |-> XVar(NodeId(c[j]), t)], " + ")
        \o (IF Obj = "MR-LC" THEN " - a" \o ToString(u) \o " <= 0"
            ELSE " <= " \o ToString(PyIndex(args.area_cost.val, u - 1)))

\* C12: for every interior unit u and step t in [1, L], generate_rsrc_cstrs
\* emits exactly one resource constraint when some node of unit u has t in
\* its window and none otherwise; the constraints are ordered by unit id,
\* then by step, and labelled r0, r1, ... without gaps.
C12_RsrcCoverage ==
    RsrcEmitted =>
        LET first == 3 + Len(graph.nodes)
            R == RsrcPairs
        IN  /\ Len(generated_ilp) >= first + Len(R)
            /\ pc = "generate_dep_cstrs" => Len(generated_ilp) = first + Len(R)
            /\ \A k \in 1..Len(R) :
                  generated_ilp[first + k] = RsrcLine(k, R[k][1], R[k][2])

\* the lines a step appends to the line buffer
Appended == SubSeq(generated_ilp', Len(generated_ilp) + 1, Len(generated_ilp'))

\* the edges u->v with slack(u) = 0 and slack(v) = 0
CriticalEdges ==
    {e \in Range(graph.edges) : Slack(e.u) = 0 /\ Slack(e.v) = 0}

\* a node index as any of the emitting functions may write it
AnyId(n) == {"n", ToString(index(get_nodes(graph), n))}

\* the dependency constraints an edge between two zero-slack nodes would get
CriticalDepLines(e) ==
    {"  d" \o ToString(d) \o ": " \o TXVar(cid, unit_times_asap[e.v])
       \o " - " \o TXVar(pid, unit_times_asap[e.u]) \o " >= 1" :
         d \in 0..Len(graph.edges), cid \in AnyId(e.v), pid \in AnyId(e.u)}

\* C13: generate_dep_cstrs emits no dependency constraint for an edge u->v
\* whose two nodes have zero slack: none of the lines it appends is a
\* constraint of such an edge, it appends at most one line per other edge,
\* and it appends nothing when every node is on the critical path.
C13_CriticalSkip ==
    [][pc = "generate_dep_cstrs" =>
          /\ \A e \in CriticalEdges :
                Range(Appended) \cap CriticalDepLines(e) = {}
          /\ Len(Appended) <= Cardinality(Range(graph.edges) \ CriticalEdges)
          /\ (\A n \in Nodes(graph) : Slack(n) = 0) => Appended = <<>>]_vars

\* C13 witness: generate_dep_cstrs returned on a chain of four nodes at
\* L = L_min, every node on the critical path
C13_Witness ==
    /\ pc = "generate_closing"
    /\ Len(graph.nodes) = 4
    /\ Sink = LabelT
    /\ \A n \in Nodes(graph) : Slack(n) = 0
    /\ \E e \in Range(graph.edges) :
          e.u # Source /\ sorted(predecessors(graph, e.v))[1] # Source

\* the objective terms t*x_<id>_t, and their variables, of the nodes of a
\* sequence, node by node and step by step
ObjTerms(nodes) ==
    Flatten([k \in 1..Len(nodes) |->
        [i \in 1..Len(Window(nodes[k])) |->
            TXVar(NodeId(nodes[k]), Window(nodes[k])[i])]])

ObjVars(nodes) ==
    Flatten([k \in 1..Len(nodes) |->
        [i \in 1..Len(Window(nodes[k])) |->
            XVar(NodeId(nodes[k]), Window(nodes[k])[i])]])

\* the ML-RC run has appended its objective, has appended its closing
MlrcObjective ==
    /\ runs # <<>>
    /\ Obj = "ML-RC"
    /\ Len(generated_ilp) >= 2

MlrcClosed ==
    /\ runs # <<>>
    /\ Obj = "ML-RC"
    /\ pc \in {"write_list", "glpsol"}

\* the objective and the Integer line are those of the nodes of a sequence
ObjectiveOver(nodes) ==
    /\ MlrcObjective => generated_ilp[2] = "  " \o Join(ObjTerms(nodes), " + ")
    /\ MlrcClosed =>
          /\ generated_ilp[Len(generated_ilp) - 2] = "Integer"
          /\ generated_ilp[Len(generated_ilp) - 1] =
                "  " \o Join(ObjVars(nodes), " ")

\* C14 (as stated): in every ML-RC emission the objective has exactly one
\* term t*x_<id>_t for each non-critical interior node and step of its
\* window, and no term for the source, the sink or a zero-slack node; the
\* Integer line lists exactly the variables of those terms.
C14_ObjectiveInterior ==
    ObjectiveOver(SelectSeq(get_nodes(graph),
                     LAMBDA n : Slack(n) # 0 /\ n # Source /\ n # Sink))

\* C14 (amended): in every ML-RC emission the objective has exactly one term
\* t*x_<id>_t for each node with ALAP > ASAP and step of its window, the
\* source and the sink included (they have slack when the user latency is
\* above L_min), and no term for a zero-slack node; the Integer line lists
\* exactly the variables of those terms.
C14_ObjectiveNonCritical ==
    ObjectiveOver(SelectSeq(get_nodes(graph), LAMBDA n : Slack(n) # 0))

\* C14 witness: the ML-RC run of the 'both' mode closed its file with a user
\* latency above L_min, on a graph with two interior nodes
C14_Witness ==
    /\ MlrcClosed
    /\ schedule_obj = "both"
    /\ latency_cstr > Lmin
    /\ Len(graph.nodes) = 4

\* the count supplied for the i-th interior unit
CountOf(u) ==
    LET units == InteriorUnits(unit_cost)
    IN  args.area_cost.val[CHOOSE i \in 1..Len(units) : units[i] = u]

\* the bounds the emitted ML-RC resource constraints must carry
RsrcBoundLine(k, u, t) ==
    LET c == Candidates(u, t)
    IN  "  r" \o ToString(k - 1) \o ": "
        \o Join([j \in 1..Len(c) |-> XVar(NodeId(c[j]), t)], " + ")
        \o " <= " \o ToString(CountOf(u))

\* C15: on every input that passed validation with a feasible latency the
\* emission phases all complete without raising, whatever the interior unit
\* ids and the label of the sink; in ML-RC the bound of each resource
\* constraint is the count supplied for its unit.
C15_EmitterTotal ==
    /\ AlapReturned => pc # "failed"
    /\ (RsrcEmitted /\ Obj = "ML-RC") =>
          \A k \in 1..Len(RsrcPairs) :
             /\ 3 + Len(graph.nodes) + k <= Len(generated_ilp)
             /\ generated_ilp[3 + Len(graph.nodes) + k] =
                   RsrcBoundLine(k, RsrcPairs[k][1], RsrcPairs[k][2])

\* the section of the LP file the i-th line of the buffer belongs to, 0 for
\* a line that belongs to none: 1 Minimize, 2 objective, 3 Subject To,
\* 4 execution, 5 resource, 6 dependency, 7 Integer, 8 integer
\* declarations, 9 End
Section(i) ==
    LET line == generated_ilp[i]
        tag  == IF Len(line) >= 3 THEN SubSeq(line, 1, 3) ELSE ""
    IN  IF line = "Minimize" THEN 1
        ELSE IF line = "Subject To" THEN 3
        ELSE IF line = "Integer" THEN 7
        ELSE IF line = "End" THEN 9
        ELSE IF tag = "  e" THEN 4
        ELSE IF tag = "  r" THEN 5
        ELSE IF tag = "  d" THEN 6
        ELSE IF i = 2 THEN 2
        ELSE IF i > 1 /\ generated_ilp[i - 1] = "Integer" THEN 8
        ELSE 0

\* the sections of the buffer are in order, the one-line sections at most
\* once; a buffer about to be written has them all
SectionsInOrder ==
    /\ \A i \in 1..Len(generated_ilp) : Section(i) # 0
    /\ \A i, j \in 1..Len(generated_ilp) :
          i < j => /\ Section(i) <= Section(j)
                   /\ Section(i) = Section(j) => Section(i) \in {4, 5, 6}
    /\ pc \in {"write_list", "glpsol"} =>
          /\ {1, 2, 3, 7, 8, 9} \subseteq
                {Section(i) : i \in 1..Len(generated_ilp)}
          /\ Cardinality({i \in 1..Len(generated_ilp) : Section(i) = 4})
                = Len(graph.nodes)

\* within a call of run_scheduler a step only appends to the buffer
AppendOnly ==
    pc # "glpsol" =>
        /\ Len(generated_ilp') >= Len(generated_ilp)
        /\ SubSeq(generated_ilp', 1, Len(generated_ilp)) = generated_ilp

\* C16: in every emission the line buffer is only appended to, and its
\* sections appear once each in the order Minimize, objective, Subject To,
\* execution constraints, resource constraints, dependency constraints,
\* Integer, integer declarations, End.
C16_SectionOrder == []SectionsInOrder /\ [][AppendOnly]_vars

\* C16 witness: a buffer with resource and dependency constraints is about
\* to be written
C16_Witness ==
    /\ pc = "write_list"
    /\ \E i \in 1..Len(generated_ilp) : Section(i) = 5
    /\ \E i \in 1..Len(generated_ilp) : Section(i) = 6

\* the edges <<u, v>> that get a dependency constraint: v in canonical
\* order, its predecessors u in label order, u not the source, and u or v
\* with slack
DepPairs ==
    LET nodes == get_nodes(graph)
    IN  Flatten([k \in 1..Len(nodes) |->
           LET us == SelectSeq(sorted(predecessors(graph, nodes[k])),
                         LAMBDA u : /\ u # Source
                                    /\ (Slack(u) > 0 \/ Slack(nodes[k]) > 0))
           IN  [i \in 1..Len(us) |-> <<us[i], nodes[k]>>]])

\* the terms of a window with a given index: the first joined by +, the
\* others each preceded by -
PlusTerms(id, n) ==
    Join([i \in 1..Len(Window(n)) |-> TXVar(id, Window(n)[i])], " + ")

MinusTerms(id, n) ==
    Join([i \in 1..Len(Window(n)) |-> " - " \o TXVar(id, Window(n)[i])], "")

\* the dependency constraint d<k-1> of the edge u->v, for any index an
\* emitting function may write for u and v
DepLines(k, u, v) ==
    {"  d" \o ToString(k - 1) \o ": " \o PlusTerms(cid, v)
       \o MinusTerms(pid, u) \o " >= 1" : cid \in AnyId(v), pid \in AnyId(u)}

\* C17: generate_dep_cstrs emits exactly one dependency constraint for
\* every edge u->v with u not the source and slack(u) > 0 or slack(v) > 0,
\* also when the source is among the predecessors of v, and none for an
\* edge s->v; they are numbered d0, d1, ... by child in canonical order,
\* then parent in label order.
C17_DepPerEdge ==
    [][pc = "generate_dep_cstrs" =>
          /\ Len(Appended) = Len(DepPairs)
          /\ \A k \in 1..Len(DepPairs) :
                Appended[k] \in DepLines(k, DepPairs[k][1], DepPairs[k][2])]_vars

----------------------------------------------------------------------------
(* Reading the emitted lines back: the variables x_<id>_<t> a line uses.   *)

RECURSIVE Words(_, _, _)
\* the set of the space-separated words of line[i..], cur being the word
\* read so far
Words(line, i, cur) ==
    IF i > Len(line) THEN (IF cur = "" THEN {} ELSE {cur})
    ELSE IF SubSeq(line, i, i) = " "
    THEN (IF cur = "" THEN {} ELSE {cur}) \cup Words(line, i + 1, "")
    ELSE Words(line, i + 1, cur \o SubSeq(line, i, i))

\* the position of the first occurrence of character c in w, 0 if none
FirstAt(w, c) ==
    LET S == {i \in 1..Len(w) : SubSeq(w, i, i) = c}
    IN  IF S = {} THEN 0 ELSE SetMin(S)

\* the variables of a line: its words from their x on (a coefficient before
\* the x is dropped)
VarsOf(line) ==
    {SubSeq(w, FirstAt(w, "x"), Len(w)) :
        w \in {v \in Words(line, 1, "") : FirstAt(v, "x") > 0}}

\* the <id> of the variable x_<id>_<t>
IdOf(var) == SubSeq(var, 3, 2 + FirstAt(SubSeq(var, 3, Len(var)), "_") - 1)

\* the variables of the execution constraints in the buffer
ExecVars ==
    UNION {VarsOf(generated_ilp[i]) :
              i \in {j \in 1..Len(generated_ilp) : Section(j) = 4}}

\* C18: in every emitted line the sink, the last node of the enumeration,
\* has the subscript n and every other node its position in the canonical
\* order: the variables of the k-th execution constraint have the index of
\* the k-th node, and every variable of the objective, of a resource
\* constraint or of a dependency constraint occurs in an execution
\* constraint.
C18_SinkIndex ==
    ExecEmitted =>
        /\ \A i \in 1..Len(generated_ilp) :
              Section(i) = 4 =>
                 \A var \in VarsOf(generated_ilp[i]) :
                    IdOf(var) = NodeId(get_nodes(graph)[i - 3])
        /\ \A i \in 1..Len(generated_ilp) :
              Section(i) \in {2, 5, 6} =>
                 VarsOf(generated_ilp[i]) \subseteq ExecVars

\* the nodes other than source and sink
Interior == Nodes(graph) \ {Source, Sink}

\* the resource constraints of the buffer that use a variable
RsrcLinesWith(var) ==
    {i \in 1..Len(generated_ilp) :
        Section(i) = 5 /\ var \in VarsOf(generated_ilp[i])}

\* the windows of the interior nodes lie inside [1, L]
WindowsInside ==
    \A n \in Interior :
       /\ 1 <= unit_times_asap[n]
       /\ unit_times_asap[n] <= unit_times_alap[n]
       /\ unit_times_alap[n] <= latency_cstr

\* C19: for every accepted graph and feasible L the window of every node
\* other than source and sink lies inside [1, L], and for every such node n
\* of an interior unit and every step t of its window the variable
\* x_<id(n)>_t occurs in exactly one of the resource constraints
\* generate_rsrc_cstrs emitted.
C19_WindowCovered ==
    /\ AlapReturned => WindowsInside
    /\ RsrcEmitted =>
          \A n \in Interior :
             node_unit[n] \in Range(InteriorUnits(unit_cost)) =>
                \A t \in Range(Window(n)) :
                   Cardinality(RsrcLinesWith(XVar(NodeId(n), t))) = 1

----------------------------------------------------------------------------
(* The cycle check.                                                        *)

AllFalse == [n \in Nodes(graph) |-> FALSE]

\* the search a top-level call on root makes from the dict of line 69
Search(root) == is_cyclic_call(graph, root, SearchStart(AllFalse))

RECURSIVE Walks(_, _)
\* the number of paths of g that start at n, the path of no edge included
\* (n reaches no cycle)
Walks(g, n) ==
    LET c == sorted(adj(g, n))
        RECURSIVE Sum(_)
        Sum(q) == IF q = <<>> THEN 0 ELSE Walks(g, Head(q)) + Sum(Tail(q))
    IN  1 + Sum(c)

\* what holds of every top-level call whatever it returns: until a call
\* returns True the marked nodes are the nodes of the recursion stack, no
\* node twice (the depth is at most |V|: the search ends); a call that
\* returns False leaves every node False and has made one call per path
\* from its root, a finished node being searched again each time it is
\* reached
SearchFacts(root) ==
    LET r == Search(root)
    IN  /\ r.st.search_ok
        /\ r.res <=> \E n \in ReachFrom(graph, {root}) :
                         n \in ReachFrom(graph, adj(graph, n))
        /\ ~r.res => /\ Marked(r.st.visited) = {}
                     /\ r.st.calls = Walks(graph, root)

====
